---- MODULE Spec2Model ----
(***************************************************************************)
(* Model of the key-value store with its file transaction log              *)
(* (src/main.go): the store map and its lock, the FileTransactionLogger    *)
(* (WritePut, WriteDelete, Run, ReadEvents), the replay loop of            *)
(* inizializeTransactionLogger, main, and the PUT and GET handlers.        *)
(*                                                                         *)
(* Strings are sequences of one-character strings; a log file is a         *)
(* sequence of lines (the text between two newlines).                      *)
(***************************************************************************)
EXTENDS Integers, Sequences, FiniteSets, TLC

VARIABLES
    file,           \* transaction.log: the sequence of its lines
    store,          \* store.m: a set of [key, value] entries, one per key
    storeLock,      \* who holds store's write lock: "free", "main" or a request
    lastSequence,   \* FileTransactionLogger.lastSequence
    pcMain,         \* where the main goroutine is
    err,            \* inizializeTransactionLogger: err
    ok,             \* inizializeTransactionLogger: ok
    pcReader,       \* where the goroutine of ReadEvents is
    readPos,        \* scanner: index of the next line to scan
    rdE,            \* ReadEvents: e, the event being sent on outEvent
    outError,       \* ReadEvents: buffer of the outError channel (capacity 1)
    outErrorClosed, \* close(outError) has run
    outEventClosed, \* close(outEvent) has run
    eventsMade,     \* l.events is non-nil (Run has made the channels)
    events,         \* buffer of the events channel of Run
    errorsCh,       \* buffer of the errors channel of Run
    pcApp,          \* where the appender goroutine of Run is
    appE,           \* Run: e, the event the appender has received
    pc,             \* per request goroutine: where it is
    req,            \* per request goroutine: the request it serves
    resp,           \* per request goroutine: its last answer
    hist            \* history: what has happened so far (not program state)

vars == <<file, store, storeLock, lastSequence, pcMain, err, ok, pcReader,
          readPos, rdE, outError, outErrorClosed, outEventClosed, eventsMade,
          events, errorsCh, pcApp, appE, pc, req, resp, hist>>

mainVars   == <<pcMain, err, ok>>
readerVars == <<pcReader, readPos, rdE, outError, outErrorClosed, outEventClosed>>
runVars    == <<eventsMade, events, errorsCh, pcApp, appE>>
reqVars    == <<pc, req, resp>>

----------------------------------------------------------------------------
(* Bounds of the model *)

\* live operations (PUT requests and Delete calls) over a whole behaviour
MaxOps == 3
\* process restarts over a whole behaviour
MaxRestarts == 1
\* lines of an arbitrary initial log file (SpecReplay)
MaxLogLen == 3
\* highest sequence number written in an arbitrary initial log file
MaxSeq == 2
\* PUT requests of the saturation scenario (SpecSat): more than the queue holds
MaxOpsSat == 17
\* PUT requests over a whole behaviour that starts from an arbitrary log (SpecLive)
MaxOpsLive == 2
\* lines of the arbitrary initial log file of SpecLive
MaxLogLenLive == 2

(* Program constants *)

\* const ( _ = iota; EventDelete; EventPut )
EventDelete == 1
EventPut == 2
\* make(chan Event, 16)
EventsCap == 16
\* make(chan error, 1), in Run and in ReadEvents
ErrorsCap == 1
\* EventType is a byte
MaxEventType == 255

----------------------------------------------------------------------------
(* Text: fmt.Fprintf and fmt.Sscanf *)

TAB == "\t"
Digits == <<"0", "1", "2", "3", "4", "5", "6", "7", "8", "9">>

isSpace(c) == c \in {" ", TAB}
isDigit(c) == \E d \in 1..10 : Digits[d] = c
notSpace(c) == ~isSpace(c)
DigitVal(c) == (CHOOSE d \in 1..10 : Digits[d] = c) - 1

\* %d of an unsigned number: its decimal digits
RECURSIVE FmtUint(_)
FmtUint(n) == IF n < 10 THEN <<Digits[n + 1]>>
              ELSE FmtUint(n \div 10) \o <<Digits[(n % 10) + 1]>>

\* fmt.Fprintf(l.file, "%d\t%d\t%s\t%s\n", seq, type, key, value): the line
\* written, without its newline
Fprintf(seq, type, key, value) ==
    FmtUint(seq) \o <<TAB>> \o FmtUint(type) \o <<TAB>> \o key \o <<TAB>> \o value

\* the classes of characters a scan runs over
InClass(c, class) ==
    IF class = "space" THEN isSpace(c)
    ELSE IF class = "digit" THEN isDigit(c)
    ELSE notSpace(c)

\* the first index from i on whose character is not of the class (or Len+1)
RECURSIVE Span(_, _, _)
Span(s, i, class) ==
    IF i > Len(s) \/ ~InClass(s[i], class) THEN i ELSE Span(s, i + 1, class)

\* the number written by the digits s[i..j-1]
RECURSIVE UintOf(_, _, _)
UintOf(s, i, j) == IF j <= i THEN 0
                   ELSE UintOf(s, i, j - 1) * 10 + DigitVal(s[j - 1])

Event(seq, type, key, value) ==
    [Sequence |-> seq, EventType |-> type, Key |-> key, Value |-> value]

\* Event{}
ZeroEvent == Event(0, 0, <<>>, <<>>)

\* fmt.Sscanf(line, "%d\t%d\t%s\t%v", &e.Sequence, &e.EventType, &e.Key, &e.Value):
\* every verb skips leading space and fails at the end of the input or on an
\* empty token; a tab of the format matches one or more spaces or the end of
\* the input; input after the last verb is ignored.
Sscanf(line) ==
    LET n  == Len(line)
        a0 == Span(line, 1, "space")
        a1 == Span(line, a0, "digit")
        b0 == Span(line, a1, "space")
        b1 == Span(line, b0, "digit")
        c0 == Span(line, b1, "space")
        c1 == Span(line, c0, "token")
        d0 == Span(line, c1, "space")
        d1 == Span(line, d0, "token")
        good == /\ a1 > a0
                /\ (a1 > n \/ isSpace(line[a1]))
                /\ b1 > b0
                /\ UintOf(line, b0, b1) <= MaxEventType
                /\ (b1 > n \/ isSpace(line[b1]))
                /\ c1 > c0
                /\ d1 > d0
    IN  IF good
        THEN [ok |-> TRUE,
              e  |-> Event(UintOf(line, a0, a1), UintOf(line, b0, b1),
                           SubSeq(line, c0, c1 - 1), SubSeq(line, d0, d1 - 1))]
        ELSE [ok |-> FALSE, e |-> ZeroEvent]

\* io.EOF.Error()
EOFLine == <<"E", "O", "F">>

----------------------------------------------------------------------------
(* The store map *)

HasKey(m, key) == \E x \in m : x.key = key
ValueOf(m, key) == (CHOOSE x \in m : x.key = key).value

\* (mutant) the entry of a key the map holds already is kept
MapPut_KeepOld(m, key, value) ==
    IF HasKey(m, key) THEN m ELSE m \cup {[key |-> key, value |-> value]}

\* store.m[key] = value
MapPut(m, key, value) ==
    {x \in m : x.key # key} \cup {[key |-> key, value |-> value]}

\* delete(store.m, key)
MapDelete(m, key) == {x \in m : x.key # key}

\* (mutant) the map is read without its ok: an absent key reads as ""
Get_ZeroValue(m, key) ==
    [value |-> IF HasKey(m, key) THEN ValueOf(m, key) ELSE <<>>, err |-> "nil"]

\* Get(key): value, ok := store.m[key]; if !ok { return "", ErrorNoSuchKey }
Get(m, key) ==
    IF HasKey(m, key) THEN [value |-> ValueOf(m, key), err |-> "nil"]
    ELSE [value |-> <<>>, err |-> "no such key"]

----------------------------------------------------------------------------
(* Values of the state *)

Requests == {"r1", "r2"}

NoReq == [op |-> "none", key |-> <<>>, value |-> <<>>, afterFail |-> FALSE]

NoHist == [ accepted   |-> <<>>,   \* lines whose record ReadEvents accepted
            received   |-> <<>>,   \* lines whose event the replay loop received
            applied    |-> <<>>,   \* lines whose event the replay loop applied
            readerErr  |-> "nil",  \* the error ReadEvents sent on outError
            rejected   |-> "nil",  \* the error the replay loop raised itself
            closeRecv  |-> FALSE,  \* the replay loop received from closed outEvent
            runCalls   |-> 0,      \* calls of Run
            registered |-> FALSE,  \* main has registered the handlers
            nextId     |-> 1,      \* identity of the next event sent
            sendOrder  |-> <<>>,   \* identities in the order their sends completed
            written    |-> <<>>,   \* identities in the order they were written
            failed     |-> FALSE,  \* a write of the appender has failed
            lateWrite  |-> FALSE,  \* a line was written after a failed write
            ops        |-> 0,      \* live operations so far
            overlap    |-> FALSE,  \* an operation began while another was under way
            restarts   |-> 0,      \* restarts so far
            runSeq     |-> 0,      \* lastSequence when Run was called
            runLen     |-> 0,      \* lines of the log when Run was called
            sentBy     |-> [p \in Requests |-> 0],
                                   \* identity of the event a PUT request under way has sent
            acked      |-> {},     \* identities of the events of the requests answered 201
            origStore  |-> {} ]    \* the store when the process was restarted

\* the state of a process that has just started, over the log it finds
ProcessStart ==
    /\ store = {}
    /\ storeLock = "free"
    /\ lastSequence = 0
    /\ pcMain = "start"
    /\ err = "nil"
    /\ ok = TRUE
    /\ pcReader = "off"
    /\ readPos = 1
    /\ rdE = ZeroEvent
    /\ outError = <<>>
    /\ outErrorClosed = FALSE
    /\ outEventClosed = FALSE
    /\ eventsMade = FALSE
    /\ events = <<>>
    /\ errorsCh = <<>>
    /\ pcApp = "off"
    /\ appE = [e |-> ZeroEvent, id |-> 0]
    /\ pc = [p \in Requests |-> "idle"]
    /\ req = [p \in Requests |-> NoReq]
    /\ resp = [p \in Requests |-> "none"]
    /\ hist = NoHist

\* log.Fatalf ends the process and every goroutine with it
Alive == pcMain # "fatal"

----------------------------------------------------------------------------
(* ReadEvents: the goroutine that scans the log *)

\* (mutant) the check written with > : an equal sequence is accepted
SequenceNotIncreasing_Strict(last, seq) == last > seq

\* if l.lastSequence >= e.Sequence
SequenceNotIncreasing(last, seq) == last >= seq

\* (mutant) the error is reported and the event in e is sent all the same
ReaderFails_Deliver(what) ==
    /\ outError' = Append(outError, what)
    /\ pcReader' = "send"
    /\ hist' = [hist EXCEPT !.readerErr = what]
    /\ UNCHANGED <<lastSequence, rdE>>

\* outError <- ...; return
ReaderFails(what) ==
    /\ outError' = Append(outError, what)
    /\ pcReader' = "closeError"
    /\ hist' = [hist EXCEPT !.readerErr = what]
    /\ UNCHANGED <<lastSequence, rdE>>

\* one turn of for scanner.Scan() { ... }, up to the send on outEvent
ReadEvents_Scan ==
    /\ Alive
    /\ pcReader = "scan"
    /\ IF readPos > Len(file)
       THEN \* scanner.Scan() is false, scanner.Err() is nil
            /\ pcReader' = "closeError"
            /\ UNCHANGED <<readPos, lastSequence, rdE, outError, hist>>
       ELSE LET line == file[readPos]
                r    == Sscanf(line)
            IN  /\ readPos' = readPos + 1
                /\ IF line = EOFLine
                   THEN UNCHANGED <<pcReader, lastSequence, rdE, outError, hist>>
                   ELSE IF ~r.ok
                   THEN ReaderFails("parse")
                   ELSE IF SequenceNotIncreasing(lastSequence, r.e.Sequence)
                   THEN ReaderFails("sequence")
                   ELSE /\ lastSequence' = r.e.Sequence
                        /\ rdE' = r.e
                        /\ pcReader' = "send"
                        /\ hist' = [hist EXCEPT !.accepted = Append(@, readPos)]
                        /\ UNCHANGED outError
    /\ UNCHANGED <<file, store, storeLock, outErrorClosed, outEventClosed>>
    /\ UNCHANGED <<mainVars, runVars, reqVars>>

\* scanner.Scan() is false because reading the file failed: scanner.Err() # nil
ReadEvents_ScanErr ==
    /\ Alive
    /\ pcReader = "scan"
    /\ ReaderFails("read")
    /\ UNCHANGED <<file, store, storeLock, readPos, outErrorClosed, outEventClosed>>
    /\ UNCHANGED <<mainVars, runVars, reqVars>>

\* defer close(outError): the last deferred call runs first
ReadEvents_CloseError ==
    /\ Alive
    /\ pcReader = "closeError"
    /\ outErrorClosed' = TRUE
    /\ pcReader' = "closeEvent"
    /\ UNCHANGED <<file, store, storeLock, lastSequence, readPos, rdE, outError,
                   outEventClosed, hist>>
    /\ UNCHANGED <<mainVars, runVars, reqVars>>

\* defer close(outEvent)
ReadEvents_CloseEvent ==
    /\ Alive
    /\ pcReader = "closeEvent"
    /\ outEventClosed' = TRUE
    /\ pcReader' = "done"
    /\ UNCHANGED <<file, store, storeLock, lastSequence, readPos, rdE, outError,
                   outErrorClosed, hist>>
    /\ UNCHANGED <<mainVars, runVars, reqVars>>

----------------------------------------------------------------------------
(* inizializeTransactionLogger and main *)

\* logger.ReadEvents(): makes the two channels and starts the goroutine
\* (NewFileTransactionLogger has opened the file)
inizializeTransactionLogger_ReadEvents ==
    /\ pcMain = "start"
    /\ pcMain' = "select"
    /\ err' = "nil"
    /\ ok' = TRUE
    /\ pcReader' = "scan"
    /\ UNCHANGED <<file, store, storeLock, lastSequence, readPos, rdE, outError,
                   outErrorClosed, outEventClosed, hist>>
    /\ UNCHANGED <<runVars, reqVars>>

\* (mutant) the error channel is polled: with no error waiting, the receive
\* yields ok = false although the channel is open
Select_Errors_Poll ==
    /\ pcMain = "select"
    /\ ok /\ err = "nil"
    /\ IF outError # <<>>
       THEN err' = Head(outError) /\ ok' = TRUE /\ outError' = Tail(outError)
       ELSE err' = "nil" /\ ok' = FALSE /\ UNCHANGED outError
    /\ UNCHANGED <<file, store, storeLock, lastSequence, pcMain, pcReader, readPos,
                   rdE, outErrorClosed, outEventClosed, hist>>
    /\ UNCHANGED <<runVars, reqVars>>

\* case err, ok = <-errors: a buffered error, or the zero value of a closed channel
Select_Errors ==
    /\ pcMain = "select"
    /\ ok /\ err = "nil"
    /\ outError # <<>> \/ outErrorClosed
    /\ IF outError # <<>>
       THEN err' = Head(outError) /\ ok' = TRUE /\ outError' = Tail(outError)
       ELSE err' = "nil" /\ ok' = FALSE /\ UNCHANGED outError
    /\ UNCHANGED <<file, store, storeLock, lastSequence, pcMain, pcReader, readPos,
                   rdE, outErrorClosed, outEventClosed, hist>>
    /\ UNCHANGED <<runVars, reqVars>>

\* case e, ok = <-events: the event the reader is sending, or the zero Event of
\* the closed channel; then the switch on e.EventType, with Put and Delete of
\* the store. Delete calls logger.WriteDelete while it holds the store's lock;
\* during replay l.events is nil, and a send on a nil channel never returns.
Select_Events ==
    /\ pcMain = "select"
    /\ ok /\ err = "nil"
    /\ pcReader = "send" \/ outEventClosed
    /\ storeLock = "free"
    /\ LET got == pcReader = "send"
           e   == IF got THEN rdE ELSE ZeroEvent
           ln  == readPos - 1
           h1  == IF got THEN [hist EXCEPT !.received = Append(@, ln)]
                  ELSE [hist EXCEPT !.closeRecv = TRUE]
       IN  /\ ok' = got
           /\ pcReader' = IF got THEN "scan" ELSE pcReader
           /\ IF e.EventType = EventPut
              THEN /\ store' = MapPut(store, e.Key, e.Value)
                   /\ hist' = [h1 EXCEPT !.applied = Append(@, ln)]
                   /\ UNCHANGED <<err, pcMain, storeLock>>
              ELSE IF e.EventType = EventDelete
              THEN IF ~HasKey(store, e.Key)
                   THEN /\ err' = "no such key"
                        /\ hist' = [h1 EXCEPT !.rejected = "no such key"]
                        /\ UNCHANGED <<store, pcMain, storeLock>>
                   ELSE /\ store' = MapDelete(store, e.Key)
                        /\ storeLock' = "main"
                        /\ pcMain' = "WriteDelete"
                        /\ hist' = [h1 EXCEPT !.applied = Append(@, ln)]
                        /\ UNCHANGED err
              ELSE /\ err' = "unknown event type"
                   /\ hist' = [h1 EXCEPT !.rejected = "unknown event type"]
                   /\ UNCHANGED <<store, pcMain, storeLock>>
    /\ UNCHANGED <<file, lastSequence, readPos, rdE, outError, outErrorClosed,
                   outEventClosed>>
    /\ UNCHANGED <<runVars, reqVars>>

\* for ok && err == nil is over: return the error (main: log.Fatalf), or go on
\* to logger.Run()
Select_Exit ==
    /\ pcMain = "select"
    /\ ~(ok /\ err = "nil")
    /\ pcMain' = IF err # "nil" THEN "fatal" ELSE "Run"
    /\ UNCHANGED <<file, store, storeLock, lastSequence, err, ok, hist>>
    /\ UNCHANGED <<readerVars, runVars, reqVars>>

\* logger.Run(): makes the channels, starts the appender; return err (nil)
Run ==
    /\ pcMain = "Run"
    /\ eventsMade' = TRUE
    /\ events' = <<>>
    /\ errorsCh' = <<>>
    /\ pcApp' = "recv"
    /\ pcMain' = "register"
    /\ hist' = [hist EXCEPT !.runCalls = @ + 1, !.runSeq = lastSequence,
                            !.runLen = Len(file)]
    /\ UNCHANGED <<file, store, storeLock, lastSequence, err, ok, appE>>
    /\ UNCHANGED <<readerVars, reqVars>>

\* main: r.HandleFunc(...) twice, http.ListenAndServe
main_Serve ==
    /\ pcMain = "register"
    /\ pcMain' = "serving"
    /\ hist' = [hist EXCEPT !.registered = TRUE]
    /\ UNCHANGED <<file, store, storeLock, lastSequence, err, ok>>
    /\ UNCHANGED <<readerVars, runVars, reqVars>>

----------------------------------------------------------------------------
(* Run: the appender goroutine *)

\* (mutant) the newest element is received first
ChanRecv_Newest(q) == [x |-> q[Len(q)], rest |-> SubSeq(q, 1, Len(q) - 1)]

\* e := <-events on a buffered channel: the oldest element
ChanRecv(q) == [x |-> Head(q), rest |-> Tail(q)]

\* (mutant) a send that gives up when the buffer is nearly full
ChanSend_Drop(q, x) == IF Len(q) >= EventsCap - 1 THEN q ELSE Append(q, x)

\* events <- x
ChanSend(q, x) == Append(q, x)

\* a send on the events channel goes through when the buffer has room
CanSend(q) == Len(q) < EventsCap

\* (mutant) the appender logs the error and goes on with the next event
AfterWriteError_Continue == "recv"

\* where the appender goes when fmt.Fprintf returns an error: errors <- err; return
AfterWriteError == "sendErr"

\* (mutant) the sequence goes up by two
NextSequence_Skip(n) == n + 2

\* l.lastSequence++
NextSequence(n) == n + 1

\* for e := range events { l.lastSequence++
Run_Recv ==
    /\ Alive
    /\ pcApp = "recv"
    /\ events # <<>>
    /\ appE' = ChanRecv(events).x
    /\ events' = ChanRecv(events).rest
    /\ lastSequence' = NextSequence(lastSequence)
    /\ pcApp' = "write"
    /\ UNCHANGED <<file, store, storeLock, eventsMade, errorsCh, hist>>
    /\ UNCHANGED <<mainVars, readerVars, reqVars>>

\* fmt.Fprintf(l.file, ...) returns no error
Run_Write ==
    /\ Alive
    /\ pcApp = "write"
    /\ file' = Append(file, Fprintf(lastSequence, appE.e.EventType, appE.e.Key,
                                    appE.e.Value))
    /\ pcApp' = "recv"
    /\ hist' = [hist EXCEPT !.written = Append(@, appE.id),
                            !.lateWrite = @ \/ hist.failed]
    /\ UNCHANGED <<store, storeLock, lastSequence, eventsMade, events, errorsCh, appE>>
    /\ UNCHANGED <<mainVars, readerVars, reqVars>>

\* fmt.Fprintf(l.file, ...) returns an error
Run_WriteErr ==
    /\ Alive
    /\ pcApp = "write"
    /\ pcApp' = AfterWriteError
    /\ hist' = [hist EXCEPT !.failed = TRUE]
    /\ UNCHANGED <<file, store, storeLock, lastSequence, eventsMade, events,
                   errorsCh, appE>>
    /\ UNCHANGED <<mainVars, readerVars, reqVars>>

\* errors <- err; return
Run_SendErr ==
    /\ Alive
    /\ pcApp = "sendErr"
    /\ Len(errorsCh) < ErrorsCap
    /\ errorsCh' = Append(errorsCh, "write")
    /\ pcApp' = "dead"
    /\ UNCHANGED <<file, store, storeLock, lastSequence, eventsMade, events, appE, hist>>
    /\ UNCHANGED <<mainVars, readerVars, reqVars>>

----------------------------------------------------------------------------
(* Requests: the PUT handler and callers of Delete *)

\* (mutant) the handler answers without calling WritePut
AfterPut_Respond == "respond"

\* where the handler goes when Put has returned nil: logger.WritePut(key, value)
AfterPut == "WritePut"

\* keyValuePutHandler up to the return of Put(key, value): the store's lock is
\* taken, the map written, the lock released
keyValuePutHandler_Put(p, key, value, max) ==
    /\ pcMain = "serving"
    /\ pc[p] = "idle"
    /\ hist.ops < max
    /\ storeLock = "free"
    /\ store' = MapPut(store, key, value)
    /\ pc' = [pc EXCEPT ![p] = AfterPut]
    /\ req' = [req EXCEPT ![p] = [op |-> "PUT", key |-> key, value |-> value,
                                  afterFail |-> errorsCh # <<>>]]
    /\ resp' = [resp EXCEPT ![p] = "none"]
    /\ hist' = [hist EXCEPT !.ops = @ + 1,
                            !.overlap = @ \/ \E q \in Requests : pc[q] # "idle",
                            !.sentBy[p] = 0]
    /\ UNCHANGED <<file, storeLock, lastSequence>>
    /\ UNCHANGED <<mainVars, readerVars, runVars>>

\* logger.WritePut(key, value): l.events <- Event{EventType: EventPut, ...}
keyValuePutHandler_WritePut(p) ==
    /\ Alive
    /\ pc[p] = "WritePut"
    /\ eventsMade
    /\ CanSend(events)
    /\ events' = ChanSend(events, [e  |-> Event(0, EventPut, req[p].key, req[p].value),
                                   id |-> hist.nextId])
    /\ pc' = [pc EXCEPT ![p] = "respond"]
    /\ hist' = [hist EXCEPT !.nextId = @ + 1, !.sendOrder = Append(@, hist.nextId),
                            !.sentBy[p] = hist.nextId]
    /\ UNCHANGED <<file, store, storeLock, lastSequence, eventsMade, errorsCh,
                   pcApp, appE, req, resp>>
    /\ UNCHANGED <<mainVars, readerVars>>

\* w.WriteHeader(http.StatusCreated)
keyValuePutHandler_Respond(p) ==
    /\ Alive
    /\ pc[p] = "respond"
    /\ pc' = [pc EXCEPT ![p] = "idle"]
    /\ resp' = [resp EXCEPT ![p] = "201"]
    /\ hist' = [hist EXCEPT !.acked = @ \cup {hist.sentBy[p]}, !.sentBy[p] = 0]
    /\ UNCHANGED <<file, store, storeLock, lastSequence, req>>
    /\ UNCHANGED <<mainVars, readerVars, runVars>>

\* Delete(key) up to logger.WriteDelete: the lock is taken; an absent key
\* returns ErrorNoSuchKey and releases it; a present key is deleted and the
\* lock stays held for the send
Delete_Call(p, key, max) ==
    /\ pcMain = "serving"
    /\ pc[p] = "idle"
    /\ hist.ops < max
    /\ storeLock = "free"
    /\ req' = [req EXCEPT ![p] = [op |-> "DELETE", key |-> key, value |-> <<>>,
                                  afterFail |-> errorsCh # <<>>]]
    /\ hist' = [hist EXCEPT !.ops = @ + 1,
                            !.overlap = @ \/ \E q \in Requests : pc[q] # "idle"]
    /\ IF ~HasKey(store, key)
       THEN /\ resp' = [resp EXCEPT ![p] = "no such key"]
            /\ UNCHANGED <<store, storeLock, pc>>
       ELSE /\ store' = MapDelete(store, key)
            /\ storeLock' = p
            /\ pc' = [pc EXCEPT ![p] = "WriteDelete"]
            /\ resp' = [resp EXCEPT ![p] = "none"]
    /\ UNCHANGED <<file, lastSequence>>
    /\ UNCHANGED <<mainVars, readerVars, runVars>>

\* logger.WriteDelete(key): l.events <- Event{EventType: EventDelete, Key: key};
\* return nil, the deferred store.Unlock()
Delete_WriteDelete(p) ==
    /\ Alive
    /\ pc[p] = "WriteDelete"
    /\ eventsMade
    /\ CanSend(events)
    /\ events' = ChanSend(events, [e  |-> Event(0, EventDelete, req[p].key, <<>>),
                                   id |-> hist.nextId])
    /\ storeLock' = "free"
    /\ pc' = [pc EXCEPT ![p] = "idle"]
    /\ resp' = [resp EXCEPT ![p] = "nil"]
    /\ hist' = [hist EXCEPT !.nextId = @ + 1, !.sendOrder = Append(@, hist.nextId)]
    /\ UNCHANGED <<file, store, lastSequence, eventsMade, errorsCh, pcApp, appE, req>>
    /\ UNCHANGED <<mainVars, readerVars>>

\* keyValueGetHandler: Get(key) under the store's read lock (no writer holds
\* the lock), then 404 for ErrorNoSuchKey or 200 and the value; req[p].value
\* is the body answered
keyValueGetHandler(p, key, max) ==
    /\ pcMain = "serving"
    /\ pc[p] = "idle"
    /\ hist.ops < max
    /\ storeLock = "free"
    /\ req' = [req EXCEPT ![p] = [op |-> "GET", key |-> key,
                                  value |-> Get(store, key).value,
                                  afterFail |-> errorsCh # <<>>]]
    /\ resp' = [resp EXCEPT ![p] = IF Get(store, key).err = "no such key"
                                   THEN "404" ELSE "200"]
    /\ hist' = [hist EXCEPT !.ops = @ + 1,
                            !.overlap = @ \/ \E q \in Requests : pc[q] # "idle"]
    /\ UNCHANGED <<file, store, storeLock, lastSequence, pc>>
    /\ UNCHANGED <<mainVars, readerVars, runVars>>

----------------------------------------------------------------------------
(* The process is stopped and started again over the same log file, once    *)
(* every request has returned and the appender has drained its queue.       *)

Drained ==
    /\ pcMain = "serving"
    /\ \A p \in Requests : pc[p] = "idle"
    /\ events = <<>>
    /\ pcApp = "recv"

Restart(max) ==
    /\ Drained
    /\ hist.restarts < max
    /\ store' = {}
    /\ storeLock' = "free"
    /\ lastSequence' = 0
    /\ pcMain' = "start"
    /\ err' = "nil"
    /\ ok' = TRUE
    /\ pcReader' = "off"
    /\ readPos' = 1
    /\ rdE' = ZeroEvent
    /\ outError' = <<>>
    /\ outErrorClosed' = FALSE
    /\ outEventClosed' = FALSE
    /\ eventsMade' = FALSE
    /\ events' = <<>>
    /\ errorsCh' = <<>>
    /\ pcApp' = "off"
    /\ appE' = [e |-> ZeroEvent, id |-> 0]
    /\ pc' = [p \in Requests |-> "idle"]
    /\ req' = [p \in Requests |-> NoReq]
    /\ resp' = [p \in Requests |-> "none"]
    /\ hist' = [NoHist EXCEPT !.ops = hist.ops, !.restarts = hist.restarts + 1,
                              !.overlap = hist.overlap, !.origStore = store]
    /\ UNCHANGED file

----------------------------------------------------------------------------
(* Specifications *)

Keys == {<<"a">>}
Values == {<<"1">>, <<"2">>}

\* the lines an arbitrary log file is made of: Put and Delete records of every
\* sequence, a Put of another value, a Put of another key, a record of an
\* unknown kind, a Delete as the appender writes it (no value field), and a
\* line that reads EOF
RECURSIVE LogsOfLen(_)
LogLines ==
    {Fprintf(s, t, <<"a">>, <<"1">>) : s \in 0..MaxSeq, t \in {EventDelete, EventPut}}
    \cup {Fprintf(MaxSeq, EventPut, <<"a">>, <<"2">>)}
    \cup {Fprintf(1, EventPut, <<"b">>, <<"1">>)}
    \cup {Fprintf(1, 3, <<"a">>, <<"1">>)}
    \cup {Fprintf(1, EventDelete, <<"a">>, <<>>)}
    \cup {EOFLine}
LogsOfLen(n) == IF n = 0 THEN {<<>>}
                ELSE {Append(l, x) : l \in LogsOfLen(n - 1), x \in LogLines}
Logs == UNION {LogsOfLen(n) : n \in 0..MaxLogLen}

Startup ==
    \/ inizializeTransactionLogger_ReadEvents
    \/ ReadEvents_Scan
    \/ ReadEvents_ScanErr
    \/ ReadEvents_CloseError
    \/ ReadEvents_CloseEvent
    \/ Select_Errors
    \/ Select_Events
    \/ Select_Exit
    \/ Run
    \/ main_Serve

Appender ==
    \/ Run_Recv
    \/ Run_Write
    \/ Run_WriteErr
    \/ Run_SendErr

\* the whole program: an empty log at first, requests, a restart
Init == file = <<>> /\ ProcessStart

Next ==
    \/ Startup
    \/ Appender
    \/ \E p \in Requests, key \in Keys, value \in Values :
           keyValuePutHandler_Put(p, key, value, MaxOps)
    \/ \E p \in Requests : keyValuePutHandler_WritePut(p)
    \/ \E p \in Requests : keyValuePutHandler_Respond(p)
    \/ \E p \in Requests, key \in Keys : Delete_Call(p, key, MaxOps)
    \/ \E p \in Requests : Delete_WriteDelete(p)
    \/ Restart(MaxRestarts)

Spec == Init /\ [][Next]_vars

\* the store and its callers: an empty log at first, PUT requests, callers of
\* Delete, GET requests; no restart
NextStore ==
    \/ Startup
    \/ Appender
    \/ \E p \in Requests, key \in Keys, value \in Values :
           keyValuePutHandler_Put(p, key, value, MaxOps)
    \/ \E p \in Requests : keyValuePutHandler_WritePut(p)
    \/ \E p \in Requests : keyValuePutHandler_Respond(p)
    \/ \E p \in Requests, key \in Keys : Delete_Call(p, key, MaxOps)
    \/ \E p \in Requests : Delete_WriteDelete(p)
    \/ \E p \in Requests, key \in Keys : keyValueGetHandler(p, key, MaxOps)

SpecStore == Init /\ [][NextStore]_vars

\* startup over an arbitrary log file
InitReplay == file \in Logs /\ ProcessStart

NextReplay == Startup

SpecReplay == InitReplay /\ [][NextReplay]_vars

\* saturation: PUT requests of one key and value, more than the queue holds
NextSat ==
    \/ Startup
    \/ Appender
    \/ \E p \in Requests : keyValuePutHandler_Put(p, <<"a">>, <<"1">>, MaxOpsSat)
    \/ \E p \in Requests : keyValuePutHandler_WritePut(p)
    \/ \E p \in Requests : keyValuePutHandler_Respond(p)

SpecSat == Init /\ [][NextSat]_vars

\* the whole life of a log: an arbitrary log file at first, startup over it,
\* PUT requests of one key and value served one at a time, a restart
NextLive ==
    \/ Startup
    \/ Appender
    \/ keyValuePutHandler_Put("r1", <<"a">>, <<"1">>, MaxOpsLive)
    \/ keyValuePutHandler_WritePut("r1")
    \/ keyValuePutHandler_Respond("r1")
    \/ Restart(MaxRestarts)

InitLive == file \in UNION {LogsOfLen(n) : n \in 0..MaxLogLenLive} /\ ProcessStart

SpecLive == InitLive /\ [][NextLive]_vars

----------------------------------------------------------------------------
(* Fairness: the Go scheduler runs every goroutine that can take a step *)

FairStartup ==
    /\ WF_vars(inizializeTransactionLogger_ReadEvents)
    /\ WF_vars(ReadEvents_Scan)
    /\ WF_vars(ReadEvents_CloseError)
    /\ WF_vars(ReadEvents_CloseEvent)
    /\ WF_vars(Select_Errors \/ Select_Events)
    /\ WF_vars(Select_Exit)
    /\ WF_vars(Run)
    /\ WF_vars(main_Serve)

FairAppender ==
    /\ WF_vars(Run_Recv)
    /\ WF_vars(Run_Write \/ Run_WriteErr)
    /\ WF_vars(Run_SendErr)

FairRequests ==
    \A p \in Requests :
        /\ WF_vars(keyValuePutHandler_WritePut(p))
        /\ WF_vars(keyValuePutHandler_Respond(p))

FairSpecSat == SpecSat /\ FairStartup /\ FairAppender /\ FairRequests

----------------------------------------------------------------------------
(* Helpers of the properties *)

IsPrefix(s, t) == Len(s) <= Len(t) /\ \A i \in 1..Len(s) : s[i] = t[i]

Range(s) == {s[i] : i \in 1..Len(s)}

\* the replay loop itself rejected an event ReadEvents delivered
RealRejection == hist.rejected # "nil" /\ ~hist.closeRecv

\* identities of the events in the queue or held by the appender
Pending == {events[i].id : i \in 1..Len(events)}
           \cup (IF pcApp \in {"write", "sendErr"} THEN {appE.id} ELSE {})

----------------------------------------------------------------------------
(* C1 *)

\* C1: store-log equivalence. After Put and Delete operations applied one
\* after another and a restart from a drained state, the replay of the log
\* the appender wrote meets no parse or sequence error, rejects no
\* event, does not get stuck inside an operation of the store, and when it has
\* completed the store equals the store of the process that wrote the log.
\* (An error of reading the file and the error raised from the closed event
\* channel are left out of the statement: they are not faults of the log.)
C1_StoreLogEquivalence ==
    hist.restarts > 0 /\ ~hist.overlap =>
        /\ hist.readerErr \notin {"parse", "sequence"}
        /\ ~RealRejection
        /\ pcMain # "WriteDelete"
        /\ (pcMain = "Run" => store = hist.origStore)

----------------------------------------------------------------------------
(* C2 *)

\* C2: FIFO persistence. As long as no append has failed, the identities of
\* the records written are a prefix of the identities of the events in the
\* order their sends completed: nothing twice, skipped or reordered.
C2_FifoPersistence ==
    ~hist.failed => IsPrefix(hist.written, hist.sendOrder)

\* two events of overlapping requests written, a third one still in the queue
C2_Witness ==
    /\ ~hist.failed
    /\ hist.overlap
    /\ Len(hist.written) >= 2
    /\ Len(events) >= 1

----------------------------------------------------------------------------
(* C3 *)

\* no event is dropped: unless an append has failed, every event whose send
\* completed is in the queue, held by the appender or written; and the queue
\* never holds more than its capacity
NoEventDropped ==
    /\ Len(events) <= EventsCap
    /\ ~hist.failed => Range(hist.sendOrder) = Range(hist.written) \cup Pending

\* C3: queue saturation. The queue never exceeds its capacity and drops
\* nothing; under fair scheduling, unless a write fails, every event sent is
\* eventually written (again and again everything sent so far is written, and
\* the events sent only grow) and every request waiting in WritePut eventually
\* gets on (again and again it is not waiting there).
C3_Saturation ==
    /\ []NoEventDropped
    /\ []<>(hist.failed \/ Range(hist.sendOrder) \subseteq Range(hist.written))
    /\ \A p \in Requests : []<>(pc[p] # "WritePut" \/ hist.failed)

\* the queue is full and a request waits in WritePut, its Put already applied
C3_Witness ==
    /\ Len(events) = EventsCap
    /\ \E p \in Requests : pc[p] = "WritePut"
    /\ ~hist.failed

----------------------------------------------------------------------------
(* C4 *)

\* what Sscanf makes of every line an arbitrary log file is made of, and of
\* every line of the log
ParsedLine == [l \in LogLines |-> Sscanf(l)]
ParsedLog == [n \in 1..Len(file) |-> ParsedLine[file[n]]]

\* line n of the log is a record (ReadEvents skips a line that reads EOF)
IsRecord(n) == file[n] # EOFLine

\* P the parsed log: the records before line n parse and carry strictly
\* increasing sequences above 0
WellFormedBefore(P, n) ==
    \A m \in 1..(n - 1) :
        IsRecord(m) =>
            /\ P[m].ok
            /\ P[m].e.Sequence > 0
            /\ \A k \in 1..(m - 1) : IsRecord(k) => P[k].e.Sequence < P[m].e.Sequence

\* P the parsed log: line n is the first record whose sequence does not exceed
\* the sequence of every record before it (or is 0)
FirstBadSequence(P, n) ==
    /\ n \in 1..Len(file)
    /\ IsRecord(n)
    /\ P[n].ok
    /\ WellFormedBefore(P, n)
    /\ \/ P[n].e.Sequence = 0
       \/ \E m \in 1..(n - 1) : IsRecord(m) /\ P[m].e.Sequence >= P[n].e.Sequence

\* C4: replay sequence check. The records ReadEvents accepts carry strictly
\* increasing sequences above 0; the replay loop applies only accepted
\* records; once the first record with a non-increasing sequence has been
\* scanned the error is reported and the reader is past its loop; neither that
\* record nor a later one is accepted, received or applied; and Run is never
\* reached.
C4_ReplaySequenceCheck ==
    LET P == ParsedLog
    IN  /\ \A i \in 1..Len(hist.accepted) :
               /\ P[hist.accepted[i]].e.Sequence > 0
               /\ \A j \in 1..(i - 1) :
                      P[hist.accepted[j]].e.Sequence < P[hist.accepted[i]].e.Sequence
        /\ Range(hist.applied) \subseteq Range(hist.received)
        /\ Range(hist.received) \subseteq Range(hist.accepted)
        /\ \A n \in 1..Len(file) :
               FirstBadSequence(P, n) =>
                   /\ \A m \in Range(hist.accepted) : m < n
                   /\ readPos > n =>
                          /\ hist.readerErr = "sequence"
                          /\ pcReader \in {"closeError", "closeEvent", "done"}
                   /\ hist.runCalls = 0
                   /\ pcMain \notin {"Run", "register", "serving"}

\* startup has failed on the sequence error of the second record, the first
\* record is applied, a third record is behind it
C4_Witness ==
    /\ Len(file) = 3
    /\ FirstBadSequence(ParsedLog, 2)
    /\ IsRecord(3)
    /\ hist.readerErr = "sequence"
    /\ hist.applied = <<1>>
    /\ pcMain = "fatal"

----------------------------------------------------------------------------
(* C5 *)

\* C5: clean replay activates the logger. When ReadEvents has sent no error
\* and the replay loop has rejected no event that was delivered, startup does
\* not fail: err stays nil, and Run is called at most once.
C5_CleanReplayActivates ==
    /\ hist.runCalls <= 1
    /\ hist.readerErr = "nil" /\ ~RealRejection =>
           /\ err = "nil"
           /\ pcMain # "fatal"

----------------------------------------------------------------------------
(* C6 *)

\* ReadEvents has sent an error, or the replay loop has rejected an event
ReplayErrored == hist.readerErr # "nil" \/ hist.rejected # "nil"

\* main is inside WriteDelete, sending on the nil channel l.events: only main
\* calls Run, so the channel is never made and the send never returns
MainBlockedForever == pcMain = "WriteDelete" /\ ~eventsMade

\* C6: replay error aborts startup. Once ReadEvents has sent an error or the
\* replay loop has rejected an event, Run is never called, no handler is
\* registered, and main is not stopped for good before
\* inizializeTransactionLogger has returned the error.
C6_ReplayErrorAborts ==
    ReplayErrored =>
        /\ hist.runCalls = 0
        /\ ~hist.registered
        /\ ~MainBlockedForever

----------------------------------------------------------------------------
(* C7 *)

\* C7: replay tolerates a Delete of an absent key: it raises no error for it.
C7_DeleteAbsentTolerated ==
    /\ hist.rejected # "no such key"
    /\ err # "no such key"

----------------------------------------------------------------------------
(* C8 *)

\* C8: no write before activation. Whoever is inside WritePut or WriteDelete,
\* the channels of Run exist.
C8_NoWriteBeforeRun ==
    (pcMain = "WriteDelete" \/ \E p \in Requests : pc[p] \in {"WritePut", "WriteDelete"})
        => eventsMade

----------------------------------------------------------------------------
(* C9 *)

\* C9: append failure stops the appender and is published once. After a failed
\* write the appender is on its way out or gone and writes no further line;
\* its send on the error channel finds the buffer empty, so it does not block;
\* the channel holds the one error once the appender is gone, and nothing
\* before a failure.
C9_AppendFailureStopsAppender ==
    /\ Len(errorsCh) <= ErrorsCap
    /\ hist.failed => pcApp \in {"sendErr", "dead"} /\ ~hist.lateWrite
    /\ pcApp = "sendErr" => errorsCh = <<>>
    /\ pcApp = "dead" => errorsCh = <<"write">>
    /\ ~hist.failed => errorsCh = <<>>

\* the appender is gone after a failure, with a record written before it and
\* an event left in the queue
C9_Witness ==
    /\ pcApp = "dead"
    /\ Len(hist.written) >= 1
    /\ Len(events) >= 1

----------------------------------------------------------------------------
(* C10 *)

\* C10: append failure is fatal to the running process. No PUT request that
\* begins after the error was published on the error channel mutates the store
\* or is answered 201.
C10_AppendFailureFatal ==
    \A p \in Requests :
        req[p].op = "PUT" /\ req[p].afterFail =>
            /\ pc[p] \notin {"WritePut", "respond"}
            /\ resp[p] # "201"

----------------------------------------------------------------------------
(* C11 *)

----------------------------------------------------------------------------
(* C12 *)

\* the sequence field of a line: the number its leading digits write
SeqOfLine(line) == UintOf(line, 1, Span(line, 1, "digit"))

\* the lines of the log that are records, in file order
RecordLines == {n \in 1..Len(file) : IsRecord(n)}

\* C12: dense sequence assignment. Once Run has been called, lastSequence at
\* that time (L) is the highest sequence of the records of the replayed log (0
\* when it has none), the k-th line the appender has written since carries
\* the sequence L+k, and the sequences of the records of the whole log file
\* are strictly increasing in file order; this through a restart as well.
C12_DenseSequences ==
    hist.runCalls > 0 =>
        /\ \A n \in RecordLines : n <= hist.runLen => SeqOfLine(file[n]) <= hist.runSeq
        /\ \/ hist.runSeq = 0 /\ \A n \in RecordLines : n > hist.runLen
           \/ \E n \in RecordLines : n <= hist.runLen /\ SeqOfLine(file[n]) = hist.runSeq
        /\ \A k \in 1..(Len(file) - hist.runLen) :
               /\ IsRecord(hist.runLen + k)
               /\ SeqOfLine(file[hist.runLen + k]) = hist.runSeq + k
        /\ \A m, n \in RecordLines : m < n => SeqOfLine(file[m]) < SeqOfLine(file[n])

\* after a restart over a log whose one replayed record carries a sequence
\* above 1, the appender has written a second line of its own
C12_Witness ==
    /\ hist.restarts > 0
    /\ hist.runCalls > 0
    /\ hist.runLen >= 2
    /\ Len(file) > hist.runLen
    /\ IsRecord(1)
    /\ SeqOfLine(file[1]) > 1

----------------------------------------------------------------------------
(* C13 *)

\* the appender has written the line of the event it holds: that line is the
\* last of the file, and lastSequence is the sequence written on it
JustWritten == appE.id \in Range(hist.written)

\* C13: record round trip. The line the appender has written for a Put or
\* Delete event is parsed back by the Sscanf of ReadEvents without error, into
\* an Event of the same kind, key and value, with the sequence written.
C13_RecordRoundTrip ==
    JustWritten =>
        Sscanf(file[Len(file)]) =
            [ok |-> TRUE,
             e  |-> Event(lastSequence, appE.e.EventType, appE.e.Key, appE.e.Value)]

----------------------------------------------------------------------------
(* C14 *)

\* line i of the log is the record of a Put of the key and value, as the
\* appender writes it (the i-th line carries the sequence i)
IsPutLine(i, key, value) == file[i] = Fprintf(i, EventPut, key, value)

\* the lines of the log that are Put records of the key
PutLinesOf(key) == {i \in 1..Len(file) : \E value \in Values : IsPutLine(i, key, value)}

\* every line of the log is a Put record
OnlyPutsLogged == \A i \in 1..Len(file) : \E key \in Keys : i \in PutLinesOf(key)

\* C14: store order equals log order under concurrency. When only PUT
\* requests have been logged, every request has completed and the queue is
\* drained, the store holds for every key the value of the last Put record of
\* that key in the log, and no key without a record.
C14_StoreOrderIsLogOrder ==
    Drained /\ OnlyPutsLogged =>
        \A key \in Keys :
            IF PutLinesOf(key) = {}
            THEN ~HasKey(store, key)
            ELSE LET last == CHOOSE i \in PutLinesOf(key) : \A j \in PutLinesOf(key) : j <= i
                 IN  HasKey(store, key) /\ IsPutLine(last, key, ValueOf(store, key))

----------------------------------------------------------------------------
(* C15 *)

\* the numbers of the lines 1..n of the log that are records, in file order
RECURSIVE RecordsUpTo(_)
RecordsUpTo(n) ==
    IF n <= 0 THEN <<>>
    ELSE IF IsRecord(n) THEN Append(RecordsUpTo(n - 1), n) ELSE RecordsUpTo(n - 1)

\* P the parsed log: every record of the log parses and is a Put
OnlyPutLog(P) ==
    \A n \in 1..Len(file) : IsRecord(n) => P[n].ok /\ P[n].e.EventType = EventPut

\* P the parsed log, ls line numbers: the map that holds, for every key of a
\* line of ls, the value of the last line of ls with that key, and nothing else
LastPutStore(P, ls) ==
    {[key |-> P[ls[i]].e.Key, value |-> P[ls[i]].e.Value] :
        i \in {i \in 1..Len(ls) :
                   \A j \in (i + 1)..Len(ls) : P[ls[j]].e.Key # P[ls[i]].e.Key}}

\* replay has ended without an error: main is at or past the call of Run
ReplayDone == pcMain \in {"Run", "register", "serving"}

\* C15: replay applies Put events as ordered upserts. Over a log whose
\* records are all Puts: the events applied are the records of the log in
\* file order, each once, and they are the events ReadEvents delivered; at
\* every moment the store maps each key of an applied record to the value of
\* the last applied record of that key and holds no other key; and when
\* replay has ended without error, before Run is called, every record has
\* been applied.
C15_ReplayPutUpserts ==
    LET P == ParsedLog
    IN  OnlyPutLog(P) =>
            /\ IsPrefix(hist.applied, RecordsUpTo(Len(file)))
            /\ hist.received = hist.applied
            /\ store = LastPutStore(P, hist.applied)
            /\ ReplayDone =>
                   /\ hist.applied = RecordsUpTo(Len(file))
                   /\ hist.applied = hist.accepted
                   /\ pcMain = "Run" => hist.runCalls = 0

\* replay has ended without error over a log of two Put records of two keys
\* and a line that is skipped; Run is about to be called
C15_Witness ==
    /\ pcMain = "Run"
    /\ Len(file) = 3
    /\ OnlyPutLog(ParsedLog)
    /\ Len(hist.applied) = 2
    /\ Cardinality(store) = 2

----------------------------------------------------------------------------
(* C16 *)

\* P the parsed log, ls line numbers: the store after the events of the lines
\* ls have been applied in order to the empty store
RECURSIVE Replayed(_, _)
Replayed(P, ls) ==
    IF ls = <<>> THEN {}
    ELSE LET e == P[ls[Len(ls)]].e
             m == Replayed(P, SubSeq(ls, 1, Len(ls) - 1))
         IN  IF e.EventType = EventPut THEN MapPut(m, e.Key, e.Value)
             ELSE IF e.EventType = EventDelete THEN MapDelete(m, e.Key)
             ELSE m

\* the line replay has failed at: the record the replay loop rejected; or else
\* the record ReadEvents could not parse or found out of sequence; or else
\* (the file could not be read, or the loop took the zero Event of the closed
\* channel for an event) the line the reader had come to
FailedAt ==
    IF RealRejection THEN hist.received[Len(hist.received)]
    ELSE IF hist.readerErr \in {"parse", "sequence"} THEN readPos - 1
    ELSE readPos

\* C16: no rollback on failed replay. Once the replay loop has an error, and
\* so when startup aborts, the events applied are exactly the records before
\* the line replay failed at, in file order, and the store holds the result of
\* applying them in order: nothing of the accepted prefix is undone and
\* nothing of the rejected record is applied.
C16_NoRollback ==
    err # "nil" \/ pcMain = "fatal" =>
        /\ hist.applied = RecordsUpTo(FailedAt - 1)
        /\ store = Replayed(ParsedLog, hist.applied)

\* startup has aborted on the second record, a Delete of a key the store does
\* not hold; the Put of the first record is in the store, a third line follows
C16_Witness ==
    /\ pcMain = "fatal"
    /\ Len(file) = 3
    /\ hist.rejected = "no such key"
    /\ hist.applied = <<1>>
    /\ Cardinality(store) = 1

----------------------------------------------------------------------------
(* C17 *)

\* the goroutine of ReadEvents has accesses to the log file or to lastSequence
\* ahead of it: it is in its scan loop (scanner.Scan, the sequence check, the
\* assignment of lastSequence, scanner.Err)
ReaderActive == pcReader \in {"scan", "send"}

\* the appender goroutine of Run exists
AppenderStarted == pcApp # "off"

\* C17: reader and appender never overlap. Whenever the appender goroutine
\* exists, the goroutine of ReadEvents of the same process has left its scan
\* loop for good: its last access to the file and to lastSequence is behind
\* it before the appender's first.
C17_ReaderAppenderDisjoint ==
    AppenderStarted => ~ReaderActive /\ pcReader # "off"

\* the appender is about to write a line while the reader, which has
\* accepted records of the log, has still to close its event channel
C17_Witness ==
    /\ pcApp = "write"
    /\ pcReader = "closeEvent"
    /\ hist.accepted # <<>>

----------------------------------------------------------------------------
(* C18 *)

\* a send on l.events cannot go through now: the channel is nil, or its
\* buffer is full
SendBlocked == ~(eventsMade /\ CanSend(events))

\* C18: store operations never wait on the logger. Nobody holds the store's
\* lock while blocked in a send on the event queue: neither main, replaying a
\* Delete, nor a request goroutine.
C18_StoreNeverWaitsOnLogger ==
    /\ ~(storeLock = "main" /\ pcMain = "WriteDelete" /\ SendBlocked)
    /\ \A p \in Requests :
           ~(storeLock = p /\ pc[p] = "WriteDelete" /\ SendBlocked)

----------------------------------------------------------------------------
(* C19 *)

\* identities of the events in the queue
Queued == {events[i].id : i \in 1..Len(events)}

\* C19: acknowledged writes are logged or queued. The event of every PUT
\* request answered 201 is one whose send on the queue has completed, so no
\* request is answered before its WritePut has returned; and as long as no
\* append has failed, that event is in the queue, held by the appender, or
\* written to the log.
C19_AckedLoggedOrQueued ==
    /\ hist.acked \subseteq Range(hist.sendOrder)
    /\ \A p \in Requests : pc[p] = "respond" => hist.sentBy[p] \in Range(hist.sendOrder)
    /\ ~hist.failed => hist.acked \subseteq (Pending \cup Range(hist.written))

\* of three PUT requests answered 201, the event of one is written, of
\* another held by the appender, of the third still in the queue
C19_Witness ==
    /\ ~hist.failed
    /\ hist.acked \cap Range(hist.written) # {}
    /\ pcApp = "write" /\ appE.id \in hist.acked
    /\ hist.acked \cap Queued # {}

====
